---- MODULE Spec2Model ----
(***************************************************************************)
(* PrivateThreadsApi (src/threads/apis/private.py): the session built by  *)
(* the constructor, the token extraction, the templated operations, the   *)
(* thread creation and the image upload.                                   *)
(*                                                                         *)
(* Python strings that the code inspects character by character (the      *)
(* login response text, the token, the image source) are sequences of     *)
(* one-character strings.  The attributes assigned on self are the set    *)
(* attrs (the object's __dict__ keys); reading an attribute that is not   *)
(* in attrs raises AttributeError.  A call runs from one blocking I/O     *)
(* point to the next in one action; pc is the I/O point the single        *)
(* thread is blocked at.                                                   *)
(***************************************************************************)
EXTENDS Integers, Sequences, FiniteSets, TLC

(* ------------------------------ bounds -------------------------------- *)
\* login response texts are concatenations of at most MaxPieces pieces
MaxPieces == 6
\* image sources are concatenations of at most MaxSourcePieces pieces
MaxSourcePieces == 3

(* ----------------------- Python string helpers ------------------------ *)
\* Python None, for the optional string arguments (a one-element sequence
\* that no character sequence equals, characters being one-character strings)
None == <<"None">>
\* Python None where an integer is expected (an upload identifier)
NoneId == -1

\* 'Bearer IGT:2:' (private.py:362), 13 characters
BearerKey == <<"B", "e", "a", "r", "e", "r", " ", "I", "G", "T", ":", "2", ":">>
\* '\\\\' (private.py:365): the two-character string backslash backslash
BackslashKey == <<"\\", "\\">>
\* 'http' (private.py:400)
HttpPrefix == <<"h", "t", "t", "p">>

\* s[i:j] for 0-based offsets already clamped to 0..Len(s)
Cut(s, i, j) == IF i >= j THEN <<>> ELSE SubSeq(s, i + 1, j)

\* Python's index normalisation of a slice bound: a negative bound counts
\* from the end, and the result is clamped to 0..n
Clamp(i, n) == IF i < 0 THEN (IF i + n < 0 THEN 0 ELSE i + n)
               ELSE (IF i > n THEN n ELSE i)

\* s[start:stop]
PySlice(s, start, stop) == Cut(s, Clamp(start, Len(s)), Clamp(stop, Len(s)))

\* s[start:]
PySliceFrom(s, start) == Cut(s, Clamp(start, Len(s)), Len(s))

\* sub occurs in s at 0-based offset i
OccursAt(s, sub, i) ==
    /\ i >= 0
    /\ i + Len(sub) <= Len(s)
    /\ \A k \in 1..Len(sub) : s[i + k] = sub[k]

\* s.find(sub): the lowest offset where sub occurs, -1 when it does not
PyFind(s, sub) ==
    LET hits == {i \in 0..Len(s) : OccursAt(s, sub, i)}
    IN  IF hits = {} THEN -1
        ELSE CHOOSE i \in hits : \A j \in hits : i <= j

\* s.startswith(prefix)
PyStartsWith(s, prefix) == OccursAt(s, prefix, 0)

(* -------------------------- token extraction -------------------------- *)
\* (variant: the double-backslash is searched in the whole response text
\* instead of in the remainder that starts at the marker)
ExtractTokenWholeText(text) ==
    LET bearer_key_position == PyFind(text, BearerKey)
        backslash_key_position == PyFind(text, BackslashKey)
    IN  PySlice(text, bearer_key_position + 13, backslash_key_position)

\* (variant: a text without the marker is handled as the spec describes it,
\* the whole text being the remainder that is cut at the double-backslash)
ExtractTokenOrText(text) ==
    LET bearer_key_position == PyFind(text, BearerKey)
        response_text == IF bearer_key_position = -1 THEN text
                         ELSE PySliceFrom(text, bearer_key_position)
        backslash_key_position == PyFind(response_text, BackslashKey)
    IN  IF bearer_key_position = -1
        THEN PySlice(response_text, 0, backslash_key_position)
        ELSE PySlice(response_text, 13, backslash_key_position)

\* private.py:362-368: the token cut out of the login response text
ExtractToken(text) ==
    LET bearer_key_position == PyFind(text, BearerKey)
        response_text == PySliceFrom(text, bearer_key_position)
        backslash_key_position == PyFind(response_text, BackslashKey)
    IN  PySlice(response_text, 13, backslash_key_position)

(* ------------------------------- inputs ------------------------------- *)
\* the pieces login response texts are made of: the marker, a token
\* character, a backslash
Pieces == {BearerKey, <<"t">>, <<"\\">>}

RECURSIVE TextsOf(_)
TextsOf(n) ==
    IF n = 0 THEN {<<>>}
    ELSE LET shorter == TextsOf(n - 1)
         IN  shorter \cup {t \o p : t \in shorter, p \in Pieces}

\* every login response text of at most MaxPieces pieces
Texts == TextsOf(MaxPieces)

\* the login response texts of the full specification: the marker with a
\* token and the double-backslash, no marker, the marker without a
\* double-backslash
LoginTexts == { BearerKey \o <<"t", "\\", "\\", "t">>,
                <<"t", "\\", "\\">>,
                BearerKey \o <<"t", "t">> }

Usernames == {None, <<"u">>}
Passwords == {None, <<"p">>}
\* more credentials, for the specification of construction alone
MoreUsernames == Usernames \cup {<<"v">>}
MorePasswords == Passwords \cup {<<"q">>}
\* values generate_android_device_id() returns (threads/utils.py, opaque)
DeviceIds == {"android-1"}
\* the pk values the usernameinfo endpoint answers with
UserIds == {41, 42}
\* how a JSON endpoint answers: a JSON body with the expected fields, a
\* JSON body without them, a body that is not JSON, or no answer at all
\* (requests raises a transport error)
Answers == {"ok", "missing", "not_json", "transport"}

\* create_thread's url argument
LinkUrls == {None, <<"l">>}
\* the pieces image sources are made of
SourcePieces == {HttpPrefix, <<"s">>, <<":", "/", "/">>, <<"x">>}

RECURSIVE SourcesOf(_)
SourcesOf(n) ==
    IF n = 0 THEN {<<>>}
    ELSE LET shorter == SourcesOf(n - 1)
         IN  shorter \cup {t \o p : t \in shorter, p \in SourcePieces}

\* every non-empty image source of at most MaxSourcePieces pieces
ImageSources == SourcesOf(MaxSourcePieces) \ {<<>>}
\* create_thread's image_url argument
ImageUrls == {None} \cup ImageSources
\* create_thread's reply_to argument
ReplyTargets == {NoneId, 9}
\* values of int(time.time())
Times == {100, 101}
\* the upload_id values the upload endpoint answers with
UploadIds == {100, 555}
\* the status codes the upload endpoint answers with
Statuses == {200, 500}

(* ------------------------------- state -------------------------------- *)
VARIABLES
    pc,                    \* the I/O point the thread is blocked at
    attrs,                 \* names of the attributes assigned on self
    username, password,    \* self.username, self.password
    timezone_offset,       \* self.timezone_offset
    android_device_id,     \* self.android_device_id
    instagram_api_token,   \* self.instagram_api_token
    headers,               \* self.headers
    user_id,               \* self.user_id
    login_text,            \* response.text of the login request
    call,                  \* the public call in progress (or the last one)
    sent,                  \* the HTTP requests the current call has issued
    outcome,               \* how the last finished call ended
    result,                \* the integer the last finished call returned
    parameters_as_string,  \* create_thread's payload
    endpoint,              \* create_thread's endpoint
    upload,                \* the locals of _upload_image
    login_count,           \* login requests issued since construction began
    first_request          \* endpoint of the first HTTP request ever issued

self_vars == <<attrs, username, password, timezone_offset, android_device_id,
               instagram_api_token, headers, user_id>>
vars == <<pc, attrs, username, password, timezone_offset, android_device_id,
          instagram_api_token, headers, user_id, login_text, call, sent,
          outcome, result, parameters_as_string, endpoint, upload,
          login_count, first_request>>
create_vars == <<parameters_as_string, endpoint, upload>>

\* private.py:38
TimezoneOffset == -14400

\* the value of an attribute that is not assigned
NoHeaders == [keys |-> {}, Authorization |-> <<>>, ContentType |-> ""]
NoCall == [op |-> "none", url |-> None, image_url |-> None,
           reply_to |-> NoneId, now |-> 0]

\* create_thread's payload before it is built; a field whose name is not in
\* keys is absent from the payload
NoParameters ==
    [keys |-> {}, uid |-> 0, device_id |-> "", upload_id |-> NoneId,
     reply_id |-> NoneId, publish_mode |-> "", link_attachment_url |-> None,
     scene_capture_type |-> "-"]
\* the locals of _upload_image before it runs
\* (status and response_id record the upload response: 0 before it arrives)
NoUpload ==
    [is_url |-> FALSE, is_file_path |-> FALSE, file_data |-> "None",
     file_length |-> "None", upload_id |-> 0, status |-> 0,
     response_id |-> NoneId, headers |-> NoHeaders]

\* private.py:354-358: the headers of the login request (no Authorization)
LoginHeaders ==
    [keys |-> {"User-Agent", "Sec-Fetch-Site", "Content-Type"},
     Authorization |-> <<>>,
     ContentType |-> "application/x-www-form-urlencoded; charset=UTF-8"]

\* private.py:44-49: the stored header set
SessionHeaders(token) ==
    [keys |-> {"Authorization", "User-Agent", "Sec-Fetch-Site", "Content-Type"},
     Authorization |-> BearerKey \o token,
     ContentType |-> "application/x-www-form-urlencoded; charset=UTF-8"]

\* private.py:353: the path of the login request
LoginEndpoint ==
    "/bloks/apps/com.bloks.www.bloks.caa.login.async.send_login_request/"

\* an HTTP request as the transport sees it
Request(verb, path, hdrs) ==
    [method |-> verb, endpoint |-> path, headers |-> hdrs]

\* the request is handed to the transport
Issue(log, req) ==
    /\ sent' = Append(log, req)
    /\ first_request' = IF first_request = "none" THEN req.endpoint
                        ELSE first_request
    /\ login_count' = IF req.endpoint = LoginEndpoint THEN login_count + 1
                      ELSE login_count

\* the attributes super().__init__() assigns (threads/apis/abstract.py)
AbstractInit == {}

\* before construction, the constructor's arguments chosen
InitWith(usernames, passwords) ==
    /\ pc = "new"
    /\ attrs = {}
    /\ username \in usernames
    /\ password \in passwords
    /\ timezone_offset = 0
    /\ android_device_id = ""
    /\ instagram_api_token = <<>>
    /\ headers = NoHeaders
    /\ user_id = 0
    /\ login_text = <<>>
    /\ call = NoCall
    /\ sent = <<>>
    /\ outcome = "none"
    /\ result = 0
    /\ parameters_as_string = NoParameters
    /\ endpoint = "None"
    /\ upload = NoUpload
    /\ login_count = 0
    /\ first_request = "none"

Init == InitWith(Usernames, Passwords)

(* ----------------------------- constructor ---------------------------- *)
\* private.py:25-53 up to the first request: the attributes are assigned
\* and, with both credentials, the login request is issued (352-360);
\* without them the constructor returns
__init__ ==
    /\ pc = "new"
    /\ \E device \in DeviceIds :
        /\ android_device_id' = device
        /\ timezone_offset' = TimezoneOffset
        /\ IF username # None /\ password # None
           THEN /\ attrs' = AbstractInit \cup {"username", "password",
                         "timezone_offset", "android_device_id"}
                /\ Issue(sent, Request("POST", LoginEndpoint, LoginHeaders))
                /\ pc' = "login"
           ELSE /\ attrs' = AbstractInit \cup {"username", "password",
                         "timezone_offset", "android_device_id", "mimetypes"}
                /\ pc' = "ready"
                /\ UNCHANGED <<sent, first_request, login_count>>
    /\ UNCHANGED <<username, password, instagram_api_token, headers, user_id,
                   login_text, call, outcome, result, create_vars>>

\* (variant: the constructor swallows the exception and returns the object)
ConstructorSwallows(error) ==
    /\ pc' = "ready"
    /\ outcome' = error

\* the constructor raises: no object is handed to the caller
ConstructorFails(error) ==
    /\ pc' = "failed"
    /\ outcome' = error

\* private.py:362-368 and 42-51: the login response arrives, the token is
\* cut out of its text, the headers are stored and get_user_id issues the
\* lookup (65); a transport error of the login request ends construction
_get_instagram_api_token(texts) ==
    /\ pc = "login"
    /\ \/ /\ ConstructorFails("TransportError")
          /\ UNCHANGED <<attrs, instagram_api_token, headers, login_text,
                         sent, first_request, login_count>>
       \/ \E text \in texts :
            /\ login_text' = text
            /\ instagram_api_token' = ExtractToken(text)
            /\ headers' = SessionHeaders(ExtractToken(text))
            /\ attrs' = attrs \cup {"instagram_api_token", "headers"}
            /\ Issue(sent, Request("GET", "/users/{username}/usernameinfo/",
                             SessionHeaders(ExtractToken(text))))
            /\ pc' = "lookup"
            /\ UNCHANGED outcome
    /\ UNCHANGED <<username, password, timezone_offset, android_device_id,
                   user_id, call, result, create_vars>>

\* a public call ends by raising: the caller gets the exception
Raise(error) ==
    /\ pc' = "done"
    /\ outcome' = error

\* a public call returns to the caller
Return ==
    /\ pc' = "done"
    /\ outcome' = "returned"

\* the caller has the result or the exception of the call and the call's
\* locals are gone; the session is ready for the next call
return_to_caller ==
    /\ pc = "done"
    /\ pc' = "ready"
    /\ call' = NoCall
    /\ sent' = <<>>
    /\ outcome' = "none"
    /\ result' = 0
    /\ parameters_as_string' = NoParameters
    /\ endpoint' = "None"
    /\ upload' = NoUpload
    /\ UNCHANGED <<self_vars, login_text, login_count, first_request>>

\* private.py:55-70: get_user_id called by the caller, up to its request;
\* reading self.headers fails when the attribute was never assigned
get_user_id ==
    /\ pc = "ready"
    /\ call' = [NoCall EXCEPT !.op = "get_user_id"]
    /\ result' = 0
    /\ IF "headers" \in attrs
       THEN /\ Issue(<<>>, Request("GET", "/users/{username}/usernameinfo/",
                                   headers))
            /\ pc' = "get_user_id"
            /\ outcome' = "none"
       ELSE /\ sent' = <<>>
            /\ Raise("AttributeError")
            /\ UNCHANGED <<first_request, login_count>>
    /\ UNCHANGED <<self_vars, login_text, create_vars>>

\* private.py:67-70 and 51-53: the lookup's response; response.json()
\* raises on a body that is not JSON, .get('user') gives None on a body
\* without the user and None.get raises; in the constructor the result
\* becomes self.user_id and the constructor returns
get_user_id_response ==
    /\ pc \in {"lookup", "get_user_id"}
    /\ \E answer \in Answers, pk \in UserIds :
        LET error == CASE answer = "transport" -> "TransportError"
                       [] answer = "not_json" -> "JSONDecodeError"
                       [] answer = "missing" -> "AttributeError"
                       [] OTHER -> "none"
        IN  IF pc = "lookup"
            THEN /\ IF error = "none"
                    THEN /\ user_id' = pk
                         /\ attrs' = attrs \cup {"user_id", "mimetypes"}
                         /\ pc' = "ready"
                         /\ outcome' = "returned"
                    ELSE /\ ConstructorFails(error)
                         /\ UNCHANGED <<user_id, attrs>>
                 /\ UNCHANGED result
            ELSE /\ IF error = "none" THEN Return ELSE Raise(error)
                 /\ result' = IF error = "none" THEN pk ELSE 0
                 /\ UNCHANGED <<user_id, attrs>>
    /\ UNCHANGED <<username, password, timezone_offset, android_device_id,
                   instagram_api_token, headers, login_text, call, sent,
                   create_vars, login_count, first_request>>

(* ----------------------- templated operations ------------------------- *)
\* private.py:72-202 and 268-317: method, path and whether the path
\* interpolates self.user_id
Operations ==
    { [op |-> "get_user", method |-> "GET",
       endpoint |-> "/users/{id}/info/", uses_user_id |-> FALSE],
      [op |-> "search_user", method |-> "GET",
       endpoint |-> "/users/search/?q={query}", uses_user_id |-> FALSE],
      [op |-> "get_user_followers", method |-> "GET",
       endpoint |-> "/friendships/{id}/followers/", uses_user_id |-> FALSE],
      [op |-> "get_user_following", method |-> "GET",
       endpoint |-> "/friendships/{id}/following/", uses_user_id |-> FALSE],
      [op |-> "follow_user", method |-> "POST",
       endpoint |-> "/friendships/create/{id}/", uses_user_id |-> FALSE],
      [op |-> "unfollow_user", method |-> "POST",
       endpoint |-> "/friendships/destroy/{id}/", uses_user_id |-> FALSE],
      [op |-> "get_thread", method |-> "GET",
       endpoint |-> "/text_feed/{id}/replies", uses_user_id |-> FALSE],
      [op |-> "get_thread_likers", method |-> "GET",
       endpoint |-> "/media/{id}_{user_id}/likers/", uses_user_id |-> TRUE],
      [op |-> "delete_thread", method |-> "POST",
       endpoint |-> "/media/{id}_{user_id}/delete/?media_type=TEXT_POST",
       uses_user_id |-> TRUE],
      [op |-> "like_thread", method |-> "POST",
       endpoint |-> "/media/{id}_{user_id}/like/", uses_user_id |-> TRUE],
      [op |-> "unlike_thread", method |-> "POST",
       endpoint |-> "/media/{id}_{user_id}/unlike/", uses_user_id |-> TRUE] }

\* one of the templated operations, up to its request
operation ==
    /\ pc = "ready"
    /\ \E o \in Operations :
        /\ call' = [NoCall EXCEPT !.op = o.op]
        /\ IF (o.uses_user_id => "user_id" \in attrs) /\ "headers" \in attrs
           THEN /\ Issue(<<>>, Request(o.method, o.endpoint, headers))
                /\ pc' = "operation"
                /\ outcome' = "none"
           ELSE /\ sent' = <<>>
                /\ Raise("AttributeError")
                /\ UNCHANGED <<first_request, login_count>>
    /\ result' = 0
    /\ UNCHANGED <<self_vars, login_text, create_vars>>

\* return response.json(): the parsed body, whatever it holds
json_response ==
    /\ pc \in {"operation", "create"}
    /\ \E answer \in Answers :
        CASE answer = "transport" -> Raise("TransportError")
          [] answer = "not_json" -> Raise("JSONDecodeError")
          [] OTHER -> Return
    /\ UNCHANGED <<self_vars, login_text, call, sent, result, create_vars,
                   login_count, first_request>>

(* --------------------------- thread creation -------------------------- *)
\* private.py:222-238: the payload every thread starts from
BaseParameters(now) ==
    [NoParameters EXCEPT
        !.keys = {"text_post_app_info.reply_control", "timezone_offset",
                  "source_type", "caption", "_uid", "device_id", "upload_id",
                  "device"},
        !.uid = user_id,
        !.device_id = android_device_id,
        !.upload_id = now]

\* private.py:240-241
ReplyBranch(p, reply_to) ==
    IF reply_to # NoneId
    THEN [p EXCEPT !.keys = @ \cup {"text_post_app_info.reply_id"},
                   !.reply_id = reply_to]
    ELSE p

\* private.py:245-248: the payload after the link branch
LinkBranch(p, url) ==
    IF url # None
    THEN [p EXCEPT !.keys = @ \cup {"publish_mode",
                                    "text_post_app_info.link_attachment_url"},
                   !.publish_mode = "text_post",
                   !.link_attachment_url = url]
    ELSE p

\* (variant: the link branch picks the image endpoint)
LinkEndpointFeed(url) ==
    IF url # None THEN "/media/configure_text_post_app_feed/" ELSE "None"

\* private.py:243-246: the endpoint after the link branch
LinkEndpoint(url) ==
    IF url # None THEN "/media/configure_text_only_post/" ELSE "None"

\* (variant: the image branch is an elif of the link branch)
ImageEndpointKeepsLink(before, image_url) ==
    IF image_url # None /\ before = "None"
    THEN "/media/configure_text_post_app_feed/"
    ELSE before

\* private.py:250-251: the endpoint after the image branch
ImageEndpoint(before, image_url) ==
    IF image_url # None THEN "/media/configure_text_post_app_feed/"
    ELSE before

\* (variant: the image branch keeps the time-seeded upload_id)
ImageBranchKeepsId(p, uploaded) ==
    [p EXCEPT !.keys = @ \cup {"scene_capture_type"},
              !.scene_capture_type = ""]

\* private.py:252-253: the payload after the image branch, uploaded being
\* what _upload_image returned
ImageBranch(p, uploaded) ==
    [p EXCEPT !.keys = @ \cup {"scene_capture_type"},
              !.upload_id = uploaded,
              !.scene_capture_type = ""]

\* private.py:400
IsUrl(url) == PyStartsWith(url, HttpPrefix)
\* private.py:401
IsFilePath(url) == ~PyStartsWith(url, HttpPrefix)

\* private.py:445-455: the headers of the upload request, a new dict
UploadHeaders(h) ==
    [keys |-> h.keys \cup {"Accept-Encoding", "X-Instagram-Rupload-Params",
                           "X_FB_PHOTO_WATERFALL_ID", "X-Entity-Type",
                           "Offset", "X-Entity-Name", "X-Entity-Length",
                           "Content-Type", "Content-Length"},
     Authorization |-> h.Authorization,
     ContentType |-> "application/octet-stream"]

\* (variant: the upload headers are merged into self.headers in place)
StoredHeadersInPlace(h) == UploadHeaders(h)

\* private.py:445: self.headers after the union, which leaves it alone
StoredHeaders(h) == h

\* private.py:258-264: the create-thread request
PostThread(log, path) ==
    IF "headers" \in attrs
    THEN /\ Issue(log, Request("POST", path, headers))
         /\ pc' = "create"
         /\ outcome' = "none"
    ELSE /\ Raise("AttributeError")
         /\ sent' = log
         /\ UNCHANGED <<first_request, login_count>>

\* private.py:204-264 and 390-411, up to the first blocking point: the
\* payload is built; with an image _upload_image classifies the source and
\* opens the file or fetches the URL; without one the endpoint check either
\* raises or lets the create-thread request go out
create_thread ==
    /\ pc = "ready"
    /\ result' = 0
    /\ \E url \in LinkUrls, image_url \in ImageUrls,
          reply_to \in ReplyTargets, now \in Times, later \in Times :
        /\ later >= now
        /\ call' = [op |-> "create_thread", url |-> url,
                    image_url |-> image_url, reply_to |-> reply_to,
                    now |-> now]
        /\ IF "user_id" \notin attrs
           THEN /\ Raise("AttributeError")
                /\ sent' = <<>>
                /\ parameters_as_string' = NoParameters
                /\ endpoint' = "None"
                /\ upload' = NoUpload
                /\ UNCHANGED <<first_request, login_count>>
           ELSE
             /\ parameters_as_string' =
                    LinkBranch(ReplyBranch(BaseParameters(now), reply_to), url)
             /\ endpoint' = ImageEndpoint(LinkEndpoint(url), image_url)
             /\ IF image_url # None
                THEN /\ upload' = [NoUpload EXCEPT
                                      !.is_url = IsUrl(image_url),
                                      !.is_file_path = IsFilePath(image_url),
                                      !.upload_id = later]
                     /\ IF IsFilePath(image_url)
                        THEN /\ pc' = "upload_open"
                             /\ outcome' = "none"
                             /\ sent' = <<>>
                             /\ UNCHANGED <<first_request, login_count>>
                        ELSE IF IsUrl(image_url)
                        THEN /\ Issue(<<>>, Request("GET", "image_url",
                                                    NoHeaders))
                             /\ pc' = "upload_fetch"
                             /\ outcome' = "none"
                        ELSE /\ Raise("ValueError: neither URL nor file path")
                             /\ sent' = <<>>
                             /\ UNCHANGED <<first_request, login_count>>
                ELSE /\ later = now
                     /\ upload' = NoUpload
                     /\ IF endpoint' = "None"
                        THEN /\ Raise("ValueError: no attachment")
                             /\ sent' = <<>>
                             /\ UNCHANGED <<first_request, login_count>>
                        ELSE PostThread(<<>>, endpoint')
    /\ UNCHANGED <<self_vars, login_text>>

(* ----------------------------- image upload --------------------------- *)
\* private.py:417-461: the checks after the source was read, then the
\* upload request with the merged headers (requests.post raising on a
\* header it rejects is the upload request's transport error)
UploadPost(u) ==
    IF ~u.is_file_path /\ ~u.is_url
    THEN /\ Raise("ValueError: neither URL nor file path")
         /\ upload' = u
         /\ UNCHANGED <<headers, sent, first_request, login_count>>
    ELSE IF u.file_data = "None" /\ u.file_length = "None"
    THEN /\ Raise("ValueError: could not be uploaded")
         /\ upload' = u
         /\ UNCHANGED <<headers, sent, first_request, login_count>>
    ELSE IF "headers" \notin attrs
    THEN /\ Raise("AttributeError")
         /\ upload' = u
         /\ UNCHANGED <<headers, sent, first_request, login_count>>
    ELSE /\ upload' = [u EXCEPT !.headers = UploadHeaders(headers)]
         /\ headers' = StoredHeaders(headers)
         /\ Issue(sent, Request("POST", "/rupload_igphoto/{upload_name}",
                                UploadHeaders(headers)))
         /\ pc' = "upload"
         /\ outcome' = "none"

\* private.py:403-415: the file was read, or the URL fetched, or either
\* failed (open and requests.get raise); a source that is both a file path
\* and a URL is read and then fetched
upload_source ==
    /\ pc \in {"upload_open", "upload_fetch"}
    /\ \E ok \in BOOLEAN :
        LET u == [upload EXCEPT !.file_data = "bytes", !.file_length = "len"]
        IN  IF ~ok
            THEN /\ Raise(IF pc = "upload_open" THEN "OSError"
                          ELSE "TransportError")
                 /\ UNCHANGED <<headers, upload, sent, first_request,
                                login_count>>
            ELSE IF pc = "upload_open" /\ upload.is_url
            THEN /\ upload' = u
                 /\ Issue(sent, Request("GET", "image_url", NoHeaders))
                 /\ pc' = "upload_fetch"
                 /\ UNCHANGED <<headers, outcome>>
            ELSE UploadPost(u)
    /\ UNCHANGED <<attrs, username, password, timezone_offset,
                   android_device_id, instagram_api_token, user_id,
                   login_text, call, result, parameters_as_string, endpoint>>

\* private.py:463-465: the upload response's status is rejected
UploadRejected(u, status) ==
    status # 200 /\ u.file_data = "None" /\ u.file_length = "None"

\* private.py:463-467 and 252-264: the upload response arrives;
\* _upload_image raises or returns response.json().get('upload_id'), which
\* create_thread puts in the payload before it posts the thread
_upload_image ==
    /\ pc = "upload"
    /\ \E status \in Statuses, answer \in Answers, id \in UploadIds :
        IF answer = "transport"
        THEN /\ Raise("TransportError")
             /\ UNCHANGED <<upload, parameters_as_string, sent, first_request,
                            login_count>>
        ELSE
          /\ upload' = [upload EXCEPT
                            !.status = status,
                            !.response_id = IF answer = "ok" THEN id
                                            ELSE NoneId]
          /\ IF UploadRejected(upload, status)
             THEN /\ Raise("ValueError: uploading failed")
                  /\ UNCHANGED <<parameters_as_string, sent, first_request,
                                 login_count>>
             ELSE IF answer = "not_json"
             THEN /\ Raise("JSONDecodeError")
                  /\ UNCHANGED <<parameters_as_string, sent, first_request,
                                 login_count>>
             ELSE /\ parameters_as_string' =
                        ImageBranch(parameters_as_string,
                                    IF answer = "ok" THEN id ELSE NoneId)
                  /\ IF endpoint = "None"
                     THEN /\ Raise("ValueError: no attachment")
                          /\ UNCHANGED <<sent, first_request, login_count>>
                     ELSE PostThread(sent, endpoint)
    /\ UNCHANGED <<self_vars, login_text, call, result, endpoint>>

(* --------------------------- specifications --------------------------- *)
Next ==
    \/ __init__
    \/ _get_instagram_api_token(LoginTexts)
    \/ get_user_id
    \/ get_user_id_response
    \/ operation
    \/ json_response
    \/ create_thread
    \/ upload_source
    \/ _upload_image
    \/ return_to_caller

Spec == Init /\ [][Next]_vars

\* construction alone, over every login response text
NextLogin ==
    \/ __init__
    \/ _get_instagram_api_token(Texts)
    \/ get_user_id
    \/ get_user_id_response
    \/ return_to_caller

InitLogin == InitWith(MoreUsernames, MorePasswords)

SpecLogin == InitLogin /\ [][NextLogin]_vars

(* ------------------------------- claims ------------------------------- *)
\* the constructor returned: the caller holds the object
Constructed == pc \notin {"new", "login", "lookup", "failed"}
\* both credentials were given to the constructor
WithCredentials == username # None /\ password # None
\* the session holds a user_id (create_thread gets past building its payload)
Authenticated == "user_id" \in attrs
\* the requests of the current call that create a thread
ThreadPosts ==
    {i \in 1..Len(sent) :
        sent[i].endpoint \in {"/media/configure_text_only_post/",
                              "/media/configure_text_post_app_feed/"}}
\* the upload requests of the current call
UploadPosts ==
    {i \in 1..Len(sent) : sent[i].endpoint = "/rupload_igphoto/{upload_name}"}
\* a create_thread call on a session that holds a user_id
Creating == call.op = "create_thread" /\ Authenticated

\* C1: a constructed object has neither token nor user_id (exactly when a
\* credential was missing) or has both; a failed login or lookup leaves
\* pc = "failed", which is not a constructed object
C1_SessionAllOrNothing ==
    Constructed =>
        /\ ("instagram_api_token" \in attrs) <=> ("user_id" \in attrs)
        /\ ("user_id" \in attrs) <=> WithCredentials

\* C1 witness: an authenticated object was handed to the caller
C1_Witness ==
    /\ pc = "ready"
    /\ {"instagram_api_token", "user_id"} \subseteq attrs

\* the first offset at which the marker occurs in the login response text
FirstMarker ==
    CHOOSE i \in 0..Len(login_text) :
        /\ OccursAt(login_text, BearerKey, i)
        /\ \A k \in 0..(i - 1) : ~OccursAt(login_text, BearerKey, k)
\* the login response text holds the marker
HasMarker == \E i \in 0..Len(login_text) : OccursAt(login_text, BearerKey, i)
\* the offsets after the first marker at which a double-backslash occurs
BackslashesAfterMarker ==
    {j \in (FirstMarker + Len(BearerKey))..Len(login_text) :
        OccursAt(login_text, BackslashKey, j)}

\* C2: when the login response text holds the marker and a double-backslash
\* after it, the stored token is exactly the characters between the end of
\* the first marker and the first double-backslash after it, whatever the
\* credentials; extracting again from the same text gives the stored token
C2_TokenExact ==
    (pc = "lookup" /\ HasMarker /\ BackslashesAfterMarker # {}) =>
        LET from == FirstMarker + Len(BearerKey)
            to == CHOOSE j \in BackslashesAfterMarker :
                      \A k \in BackslashesAfterMarker : j <= k
        IN  /\ Len(instagram_api_token) = to - from
            /\ \A k \in 1..(to - from) :
                   instagram_api_token[k] = login_text[from + k]
            /\ ExtractToken(login_text) = instagram_api_token

\* C2 witness: a token was cut out of a text whose first double-backslash
\* comes before the marker
C2_Witness ==
    /\ pc = "lookup"
    /\ login_text = BackslashKey \o BearerKey \o <<"t">> \o BackslashKey
    /\ instagram_api_token = <<"t">>

\* C9: when the login response text holds no marker, extraction does not
\* fail (after the login request the constructor fails only on a transport
\* error); the token is the one-character tail of the text cut from offset
\* 13, which is the empty string, the Authorization header is built from it
\* and the lookup goes out with that header
C9_NoMarkerNoError ==
    /\ (pc = "failed" /\ "instagram_api_token" \notin attrs) =>
            outcome = "TransportError"
    /\ (pc = "lookup" /\ ~HasMarker) =>
        /\ instagram_api_token = <<>>
        /\ "instagram_api_token" \in attrs
        /\ headers.Authorization = BearerKey \o instagram_api_token
        /\ Len(sent) = 2
        /\ sent[2].endpoint = "/users/{username}/usernameinfo/"
        /\ sent[2].headers.Authorization = BearerKey \o instagram_api_token

\* C9 witness: the lookup is out for a text without the marker
C9_Witness ==
    /\ pc = "lookup"
    /\ login_text = <<"t", "\\", "\\", "t">>
    /\ sent[2].headers.Authorization = BearerKey

\* C3: on a session that holds a user_id, create_thread without url and
\* image_url raises the invalid-argument ValueError and issues no request;
\* with url alone it issues one request, the POST to
\* /media/configure_text_only_post/, whose payload has
\* publish_mode=text_post and link_attachment_url=url and no
\* scene_capture_type, and no upload request; with image_url alone the
\* endpoint is /media/configure_text_post_app_feed/, every thread POST goes
\* there, and the payload has neither publish_mode nor link_attachment_url
C3_EndpointByArgument ==
    Creating =>
        /\ (call.url = None /\ call.image_url = None) =>
              /\ pc = "done"
              /\ outcome = "ValueError: no attachment"
              /\ sent = <<>>
        /\ (call.url # None /\ call.image_url = None) =>
              /\ pc \in {"create", "done"}
              /\ Len(sent) = 1
              /\ sent[1].method = "POST"
              /\ sent[1].endpoint = "/media/configure_text_only_post/"
              /\ "publish_mode" \in parameters_as_string.keys
              /\ parameters_as_string.publish_mode = "text_post"
              /\ "text_post_app_info.link_attachment_url"
                     \in parameters_as_string.keys
              /\ parameters_as_string.link_attachment_url = call.url
              /\ "scene_capture_type" \notin parameters_as_string.keys
              /\ UploadPosts = {}
        /\ (call.url = None /\ call.image_url # None) =>
              /\ endpoint = "/media/configure_text_post_app_feed/"
              /\ \A i \in ThreadPosts :
                    /\ sent[i].method = "POST"
                    /\ sent[i].endpoint = "/media/configure_text_post_app_feed/"
              /\ (pc = "create" => ThreadPosts # {})
              /\ "publish_mode" \notin parameters_as_string.keys
              /\ "text_post_app_info.link_attachment_url"
                     \notin parameters_as_string.keys

\* C3 witness: the thread POST of a call with url alone is out
C3_Witness ==
    /\ Creating
    /\ pc = "create"
    /\ call.url # None
    /\ call.image_url = None
    /\ sent[1].endpoint = "/media/configure_text_only_post/"

\* C4 (as claimed): once the upload endpoint has answered with a status
\* other than 200, the call has raised the upload-failed ValueError and no
\* thread POST is issued
C4_UploadFailureStopsCreate ==
    (Creating /\ upload.status \notin {0, 200}) =>
        /\ pc = "done"
        /\ outcome = "ValueError: uploading failed"
        /\ ThreadPosts = {}

\* the image source begins with http:// or https://
HttpSchemes == { HttpPrefix \o <<":", "/", "/">>,
                 HttpPrefix \o <<"s", ":", "/", "/">> }
BeginsWithScheme(url) == \E scheme \in HttpSchemes : OccursAt(url, scheme, 0)

\* C5 (as claimed): a non-empty image source is classified as a remote URL
\* exactly when it begins with http:// or https://, and as a local file
\* path in every other case; never both, never neither
C5_ClassificationByScheme ==
    (Creating /\ call.image_url # None) =>
        /\ upload.is_url <=> BeginsWithScheme(call.image_url)
        /\ upload.is_file_path <=> ~BeginsWithScheme(call.image_url)
        /\ outcome # "ValueError: neither URL nor file path"

\* C6: for a session constructed with credentials the login request was
\* issued exactly once and was the first request of all; without
\* credentials none is ever issued; and once the constructor has returned
\* no step of any public operation changes an attribute of the session
\* (token, user_id, android_device_id, timezone_offset, headers, the
\* credentials, the set of attributes) or issues a login request
C6_SessionImmutable ==
    /\ [](Constructed =>
            IF WithCredentials
            THEN login_count = 1 /\ first_request = LoginEndpoint
            ELSE login_count = 0 /\ first_request # LoginEndpoint)
    /\ [][Constructed =>
            /\ self_vars' = self_vars
            /\ login_count' = login_count]_vars

\* C6 witness: a create_thread call that went through the upload flow has
\* finished on an authenticated session
C6_Witness ==
    /\ Creating
    /\ pc = "done"
    /\ UploadPosts # {}
    /\ ThreadPosts # {}
    /\ login_count = 1

\* C7: in the image branch every thread POST comes after an upload POST
\* whose response has arrived, its payload's upload_id is the identifier of
\* that response and its scene_capture_type is the empty string; in the
\* link-only branch upload_id is the integer time taken at the start
C7_UploadBeforeCreate ==
    /\ (Creating /\ call.image_url # None) =>
          \A i \in ThreadPosts :
             /\ \E j \in UploadPosts : j < i
             /\ upload.status # 0
             /\ "upload_id" \in parameters_as_string.keys
             /\ parameters_as_string.upload_id = upload.response_id
             /\ "scene_capture_type" \in parameters_as_string.keys
             /\ parameters_as_string.scene_capture_type = ""
    /\ (Creating /\ call.image_url = None /\ call.url # None) =>
          /\ "upload_id" \in parameters_as_string.keys
          /\ parameters_as_string.upload_id = call.now

\* C7 witness: the thread POST is out with an uploaded identifier that
\* differs from the time taken at the start
C7_Witness ==
    /\ Creating
    /\ pc = "create"
    /\ call.image_url # None
    /\ call.now = 100
    /\ upload.response_id = 555
    /\ parameters_as_string.upload_id = 555
    /\ ThreadPosts = {2}

\* C8 (as claimed): get_user_id called on a session constructed without
\* credentials issues the usernameinfo GET and does not fail before it
C8_AnonymousLookup ==
    (~WithCredentials /\ call.op = "get_user_id"
        /\ pc \in {"get_user_id", "done"}) =>
        /\ Len(sent) = 1
        /\ sent[1].method = "GET"
        /\ sent[1].endpoint = "/users/{username}/usernameinfo/"
        /\ (pc = "done" /\ outcome = "returned") => result \in UserIds

\* C10: on a session that holds a user_id, create_thread with both url and
\* image_url never raises the invalid-argument ValueError, enters the
\* upload, ends with the image endpoint, sends every thread POST there, and
\* that POST's payload carries publish_mode=text_post and
\* link_attachment_url=url with the uploaded upload_id and the empty
\* scene_capture_type
C10_BothArguments ==
    (Creating /\ call.url # None /\ call.image_url # None) =>
        /\ outcome # "ValueError: no attachment"
        /\ upload.is_url \/ upload.is_file_path
        /\ endpoint = "/media/configure_text_post_app_feed/"
        /\ "publish_mode" \in parameters_as_string.keys
        /\ parameters_as_string.publish_mode = "text_post"
        /\ "text_post_app_info.link_attachment_url"
               \in parameters_as_string.keys
        /\ parameters_as_string.link_attachment_url = call.url
        /\ \A i \in ThreadPosts :
              /\ sent[i].endpoint = "/media/configure_text_post_app_feed/"
              /\ UploadPosts # {}
              /\ parameters_as_string.upload_id = upload.response_id
              /\ "scene_capture_type" \in parameters_as_string.keys
              /\ parameters_as_string.scene_capture_type = ""

\* C10 witness: the thread POST of a call with both arguments is out
C10_Witness ==
    /\ Creating
    /\ pc = "create"
    /\ call.url # None
    /\ call.image_url # None
    /\ ThreadPosts # {}

====
